---------------------------- MODULE Spec2Model ----------------------------
(***************************************************************************)
(* A model of the event store and reminder scheduler of the calendar      *)
(* (src/src/event_manager.py: classes Event and EventManager) together    *)
(* with the GLib main-loop sources the manager installs and the edit path *)
(* of the dialogs that call into it.                                      *)
(*                                                                         *)
(* Python strings that the code parses or compares (date, time) are       *)
(* sequences of one-character strings, so that strptime, strftime and the *)
(* lexicographic comparison of the stale pass are computed, not assumed.  *)
(***************************************************************************)
EXTENDS Integers, Sequences, FiniteSets, TLC

(***************************************************************************)
(* Bounds of the model.                                                    *)
(***************************************************************************)
\* the longest event list explored
MaxEvents == 2
\* the number of uuid4() identifiers drawn in one run
MaxUuid == 2
\* the number of listeners registered in one run
MaxCallbacks == 2
\* the number of dispatches of the idle source that are counted
MaxIdleRuns == 2

\* Python's None, a record so that it compares with every structured value
None == [none |-> TRUE]

(***************************************************************************)
(* Characters and strings.                                                 *)
(***************************************************************************)
Digits == <<"0", "1", "2", "3", "4", "5", "6", "7", "8", "9">>

IsDigit(c) == \E i \in 1..10 : Digits[i] = c

DigitVal(c) == (CHOOSE i \in 1..10 : Digits[i] = c) - 1

\* the code point of a character: Python orders str values by code point
CharOrd(c) ==
    CASE c = " " -> 32
      [] c = "-" -> 45
      [] c = ":" -> 58
      [] OTHER   -> 48 + DigitVal(c)

\* s < t for Python str values
RECURSIVE StrLess(_, _)
StrLess(s, t) ==
    IF t = <<>> THEN FALSE
    ELSE IF s = <<>> THEN TRUE
    ELSE IF s[1] # t[1] THEN CharOrd(s[1]) < CharOrd(t[1])
    ELSE StrLess(Tail(s), Tail(t))

\* the decimal number written by a string of digits
RECURSIVE NumVal(_)
NumVal(s) ==
    IF s = <<>> THEN 0
    ELSE 10 * NumVal(SubSeq(s, 1, Len(s) - 1)) + DigitVal(s[Len(s)])

\* n written with exactly w digits, zero padded (n < 10^w)
RECURSIVE Pad(_, _)
Pad(w, n) ==
    IF w = 0 THEN <<>> ELSE Append(Pad(w - 1, n \div 10), Digits[(n % 10) + 1])

(***************************************************************************)
(* The proleptic Gregorian calendar of datetime.                           *)
(***************************************************************************)
IsLeap(y) == (y % 4 = 0) /\ ((y % 100 # 0) \/ (y % 400 = 0))

DaysInMonth(y, m) ==
    IF m = 2 THEN (IF IsLeap(y) THEN 29 ELSE 28)
    ELSE IF m \in {4, 6, 9, 11} THEN 30 ELSE 31

RECURSIVE DaysBeforeMonth(_, _)
DaysBeforeMonth(y, m) ==
    IF m = 1 THEN 0 ELSE DaysBeforeMonth(y, m - 1) + DaysInMonth(y, m - 1)

DaysBeforeYear(y) ==
    365 * (y - 1) + ((y - 1) \div 4) - ((y - 1) \div 100) + ((y - 1) \div 400)

ToOrdinal(y, m, d) == DaysBeforeYear(y) + DaysBeforeMonth(y, m) + d

\* a datetime value: the ordinal of its day and the second of that day
MkDatetime(y, m, d, hh, mm, ss) ==
    [day |-> ToOrdinal(y, m, d), sec |-> (hh * 3600) + (mm * 60) + ss]

\* datetime + timedelta(seconds = n), n of either sign
PlusSeconds(dt, n) ==
    LET t == dt.sec + n
    IN  [day |-> dt.day + (t \div 86400), sec |-> t % 86400]

\* a <= b for datetime values
DtLeq(a, b) == (a.day < b.day) \/ (a.day = b.day /\ a.sec <= b.sec)

(***************************************************************************)
(* datetime.strptime: the tokens of the directives, as _strptime's regular *)
(* expressions accept them.                                                *)
(***************************************************************************)
\* %Y: \d\d\d\d
YearTok(s) == Len(s) = 4 /\ \A i \in 1..4 : IsDigit(s[i])

\* %m: 1[0-2]|0[1-9]|[1-9]
MonthTok(s) ==
    \/ Len(s) = 1 /\ IsDigit(s[1]) /\ s[1] # "0"
    \/ Len(s) = 2 /\ s[1] = "0" /\ IsDigit(s[2]) /\ s[2] # "0"
    \/ Len(s) = 2 /\ s[1] = "1" /\ s[2] \in {"0", "1", "2"}

\* %d: 3[01]|[12]\d|0[1-9]|[1-9]| [1-9]
DayTok(s) ==
    \/ Len(s) = 1 /\ IsDigit(s[1]) /\ s[1] # "0"
    \/ Len(s) = 2 /\ s[1] \in {"0", " "} /\ IsDigit(s[2]) /\ s[2] # "0"
    \/ Len(s) = 2 /\ s[1] \in {"1", "2"} /\ IsDigit(s[2])
    \/ Len(s) = 2 /\ s[1] = "3" /\ s[2] \in {"0", "1"}

\* %H: 2[0-3]|[0-1]\d|\d
HourTok(s) ==
    \/ Len(s) = 1 /\ IsDigit(s[1])
    \/ Len(s) = 2 /\ s[1] \in {"0", "1"} /\ IsDigit(s[2])
    \/ Len(s) = 2 /\ s[1] = "2" /\ s[2] \in {"0", "1", "2", "3"}

\* %M: [0-5]\d|\d
MinuteTok(s) ==
    \/ Len(s) = 1 /\ IsDigit(s[1])
    \/ Len(s) = 2 /\ s[1] \in {"0", "1", "2", "3", "4", "5"} /\ IsDigit(s[2])

\* the number a day token writes (its leading blank skipped)
DayVal(s) == IF s[1] = " " THEN DigitVal(s[2]) ELSE NumVal(s)

\* datetime(y, m, d, hh, mm) or None where the constructor raises ValueError
CheckedDatetime(y, m, d, hh, mm) ==
    IF y >= 1 /\ d <= DaysInMonth(y, m) THEN MkDatetime(y, m, d, hh, mm, 0)
    ELSE None

\* the ways "%Y-%m-%d" splits s: the lengths of the month and day tokens
DateSplits(s) ==
    {p \in (1..2) \X (1..2) :
        /\ Len(s) = 6 + p[1] + p[2]
        /\ YearTok(SubSeq(s, 1, 4))
        /\ s[5] = "-"
        /\ MonthTok(SubSeq(s, 6, 5 + p[1]))
        /\ s[6 + p[1]] = "-"
        /\ DayTok(SubSeq(s, 7 + p[1], 6 + p[1] + p[2]))}

\* datetime.strptime(s, "%Y-%m-%d"), None for ValueError
StrptimeDate(s) ==
    IF DateSplits(s) = {} THEN None
    ELSE LET p == CHOOSE q \in DateSplits(s) : TRUE
         IN  CheckedDatetime(NumVal(SubSeq(s, 1, 4)),
                             NumVal(SubSeq(s, 6, 5 + p[1])),
                             DayVal(SubSeq(s, 7 + p[1], 6 + p[1] + p[2])),
                             0, 0)

IsBlank(s) == Len(s) >= 1 /\ \A i \in 1..Len(s) : s[i] = " "

\* the ways "%Y-%m-%d %H:%M" splits s: the lengths of the date, of the hour
\* token and of the minute token; the blank of the format is \s+, so one or
\* more blanks lie between the date and the hour
DateTimeSplits(s) ==
    {p \in (8..10) \X (1..2) \X (1..2) :
        /\ p[1] + 1 + p[2] + 1 + p[3] <= Len(s)
        /\ DateSplits(SubSeq(s, 1, p[1])) # {}
        /\ IsBlank(SubSeq(s, p[1] + 1, Len(s) - p[3] - 1 - p[2]))
        /\ HourTok(SubSeq(s, Len(s) - p[3] - p[2], Len(s) - p[3] - 1))
        /\ s[Len(s) - p[3]] = ":"
        /\ MinuteTok(SubSeq(s, Len(s) - p[3] + 1, Len(s)))}

\* datetime.strptime(s, "%Y-%m-%d %H:%M"), None for ValueError
StrptimeDateTime(s) ==
    IF DateTimeSplits(s) = {} THEN None
    ELSE LET p  == CHOOSE q \in DateTimeSplits(s) : TRUE
             dt == StrptimeDate(SubSeq(s, 1, p[1]))
         IN  IF dt = None THEN None
             ELSE PlusSeconds(dt,
                    (NumVal(SubSeq(s, Len(s) - p[3] - p[2], Len(s) - p[3] - 1)) * 3600)
                    + (NumVal(SubSeq(s, Len(s) - p[3] + 1, Len(s))) * 60))

(***************************************************************************)
(* class Event.  An event object is a record; `obj` is the identity of    *)
(* the Python object, so that two entries of the list holding the same    *)
(* object change together.  It is no field of the class and never         *)
(* serialized.                                                             *)
(***************************************************************************)
\* Event.__init__: event_id "" stands for every falsy event_id (None, "")
NewEvent(args, event_id, obj, uuid) ==
    [obj |-> obj,
     id |-> IF event_id = "" THEN uuid ELSE event_id,
     title |-> args.title,
     date |-> args.date,
     time |-> args.time,
     description |-> args.description,
     notify |-> args.notify,
     notify_minutes_before |-> args.notify_minutes_before,
     notified |-> FALSE]

\* to_dict without the "description" key
ToDictWithoutDescription(e) ==
    [id |-> e.id,
     title |-> e.title,
     date |-> e.date,
     time |-> e.time,
     notify |-> e.notify,
     notify_minutes_before |-> e.notify_minutes_before,
     notified |-> e.notified]

\* Event.to_dict
ToDict(e) ==
    [id |-> e.id,
     title |-> e.title,
     date |-> e.date,
     time |-> e.time,
     description |-> e.description,
     notify |-> e.notify,
     notify_minutes_before |-> e.notify_minutes_before,
     notified |-> e.notified]

\* dict.get(key, default)
DictGet(d, key, default) == IF key \in DOMAIN d THEN d[key] ELSE default

\* Event.from_dict, on a dict
FromDict(data, obj, uuid) ==
    [NewEvent([title |-> DictGet(data, "title", ""),
               date |-> DictGet(data, "date", <<>>),
               time |-> DictGet(data, "time", <<>>),
               description |-> DictGet(data, "description", ""),
               notify |-> DictGet(data, "notify", TRUE),
               notify_minutes_before |-> DictGet(data, "notify_minutes_before", 0)],
              DictGet(data, "id", ""), obj, uuid)
     EXCEPT !.notified = DictGet(data, "notified", FALSE)]

\* Event.get_datetime on an event of this date and time: None where
\* strptime raises ValueError
ParseDatetime(date, time) ==
    IF time # <<>> THEN StrptimeDateTime(date \o <<" ">> \o time)
    ELSE StrptimeDate(date)

(***************************************************************************)
(* The persisted document.  A file is missing, unreadable (open or read   *)
(* raises OSError), undecodable (its bytes are no text in the locale's    *)
(* encoding), no JSON, or holds a JSON value.  JSON values are tagged     *)
(* records; an object's members are a function of its keys.               *)
(***************************************************************************)
JNull == [t |-> "null"]
JNumber == [t |-> "number"]
JArray(items) == [t |-> "array", items |-> items]
JObject(members) == [t |-> "object", members |-> members]

FileMissing == [kind |-> "missing"]
FileUnreadable == [kind |-> "unreadable"]
FileUndecodable == [kind |-> "undecodable"]
FileNoJson == [kind |-> "no_json"]
FileJson(v) == [kind |-> "json", value |-> v]

\* the document save_events dumps: {"events": [e.to_dict() for e in events]}
Document(evs) ==
    FileJson(JObject([events |->
        JArray([i \in 1..Len(evs) |-> JObject(ToDict(evs[i]))])]))

\* the uuid4() values of a run, in the order drawn
Uuid(n) == "uuid-" \o ToString(n)

\* the dicts of the list under "events" that have no truthy "id", up to i
RECURSIVE DrawsBefore(_, _)
DrawsBefore(items, i) ==
    IF i = 0 THEN 0
    ELSE DrawsBefore(items, i - 1)
         + (IF DictGet(items[i].members, "id", "") = "" THEN 1 ELSE 0)

\* EventManager.load_events: the list it leaves in self.events, whether an
\* exception leaves it, and the number of uuid4() calls it made
LoadEvents(doc, old, drawn) ==
    LET caught == [events |-> <<>>, raised |-> FALSE, draws |-> 0]
        escaped == [events |-> old, raised |-> TRUE, draws |-> 0]
    IN  CASE doc.kind = "missing" -> caught
          [] doc.kind \in {"unreadable", "no_json"} -> caught
          [] doc.kind = "undecodable" -> escaped
          [] OTHER ->
              LET data == doc.value IN
              IF data.t # "object" THEN escaped
              ELSE LET list == DictGet(data.members, "events", JArray(<<>>)) IN
                   IF list.t # "array" THEN escaped
                   ELSE IF \E i \in 1..Len(list.items) :
                               list.items[i].t # "object"
                        THEN [escaped EXCEPT !.draws =
                                DrawsBefore(list.items,
                                  (CHOOSE i \in 1..Len(list.items) :
                                      /\ list.items[i].t # "object"
                                      /\ \A j \in 1..(i - 1) :
                                            list.items[j].t = "object") - 1)]
                        ELSE [events |->
                                [i \in 1..Len(list.items) |->
                                    FromDict(list.items[i].members, i,
                                        Uuid(drawn + DrawsBefore(list.items, i)))],
                              raised |-> FALSE,
                              draws |-> DrawsBefore(list.items, Len(list.items))]

\* what a failing write leaves: open() fails and the file is untouched, or
\* the open truncated it and the dump did not complete
DiskOutcomes == {"ok", "open_fails", "write_fails"}

\* the outcomes explored where every mutator and every identifier is tried
StoreDisks == {"ok", "write_fails"}

\* save_events that dumps the list without its last event
SaveEventsDropsLast(evs, old, disk) ==
    CASE disk = "ok" -> Document(SubSeq(evs, 1, Len(evs) - 1))
      [] disk = "open_fails" -> old
      [] OTHER -> FileNoJson

\* EventManager.save_events: the file it leaves
SaveEvents(evs, old, disk) ==
    CASE disk = "ok" -> Document(evs)
      [] disk = "open_fails" -> old
      [] OTHER -> FileNoJson


(***************************************************************************)
(* Inputs.                                                                 *)
(***************************************************************************)
Str_2025_06_01 == <<"2", "0", "2", "5", "-", "0", "6", "-", "0", "1">>
Str_2025_06_02 == <<"2", "0", "2", "5", "-", "0", "6", "-", "0", "2">>
Str_10_00 == <<"1", "0", ":", "0", "0">>
Str_23_30 == <<"2", "3", ":", "3", "0">>
Str_25_00 == <<"2", "5", ":", "0", "0">>

\* the arguments the callers construct events with
Standup ==
    [title |-> "Standup", date |-> Str_2025_06_01, time |-> Str_10_00,
     description |-> "daily", notify |-> TRUE, notify_minutes_before |-> 15]
LateCall ==
    [title |-> "Late call", date |-> Str_2025_06_01, time |-> Str_23_30,
     description |-> "", notify |-> TRUE, notify_minutes_before |-> 0]
Holiday ==
    [title |-> "Holiday", date |-> Str_2025_06_02, time |-> <<>>,
     description |-> "", notify |-> TRUE, notify_minutes_before |-> 15]

EventArgs == {Standup, LateCall, Holiday}

\* an all-day event on the date of the timed ones
Birthday ==
    [title |-> "Birthday", date |-> Str_2025_06_01, time |-> <<>>,
     description |-> "", notify |-> TRUE, notify_minutes_before |-> 0]

\* the arguments used where the dialogs list the events of a date
ViewArgs == {Standup, LateCall, Birthday, Holiday}

\* an event whose reminder is switched off
Muted ==
    [title |-> "Muted", date |-> Str_2025_06_01, time |-> Str_10_00,
     description |-> "", notify |-> FALSE, notify_minutes_before |-> 0]

\* the arguments and the forms used where events are edited and scanned
EditArgs == {Standup}

EditForms == {Standup, LateCall, Muted}

\* an event of a hand-written file whose time is no time of day
Garbled ==
    [title |-> "Garbled", date |-> Str_2025_06_01, time |-> Str_25_00,
     description |-> "", notify |-> TRUE, notify_minutes_before |-> 0]

\* the arguments used where the periodic source is followed through its
\* scans: a due event and one the scan cannot parse
TickArgs == {Standup, Garbled}

\* the arguments used where the clock stands still: two dates suffice
StoreArgs == {Standup, Holiday}

\* the identifiers a caller passes as event_id
CallerIds == {"a"}

\* the values datetime.now() takes, in order
Instants ==
    << [y |-> 2025, m |-> 6, d |-> 1, hh |-> 9, mm |-> 44, ss |-> 0],
       [y |-> 2025, m |-> 6, d |-> 1, hh |-> 9, mm |-> 45, ss |-> 0],
       [y |-> 2025, m |-> 6, d |-> 1, hh |-> 11, mm |-> 0, ss |-> 0],
       [y |-> 2025, m |-> 6, d |-> 1, hh |-> 11, mm |-> 1, ss |-> 0],
       [y |-> 2025, m |-> 6, d |-> 1, hh |-> 23, mm |-> 45, ss |-> 0],
       [y |-> 2025, m |-> 6, d |-> 2, hh |-> 0, mm |-> 10, ss |-> 30],
       [y |-> 2025, m |-> 6, d |-> 2, hh |-> 1, mm |-> 0, ss |-> 0],
       [y |-> 2025, m |-> 6, d |-> 2, hh |-> 1, mm |-> 1, ss |-> 0] >>

\* the documents another writer may leave in the events file
FileSamples ==
    { FileMissing, FileUnreadable, FileUndecodable, FileNoJson,
      FileJson(JArray(<<>>)),
      FileJson(JObject([version |-> JNumber])),
      FileJson(JObject([events |-> JNull])),
      FileJson(JObject([events |-> JArray(<<JNumber>>)])),
      FileJson(JObject([events |-> JArray(<<
          JObject([title |-> "Imported", date |-> Str_2025_06_01]) >>)])),
      FileJson(JObject([events |-> JArray(<<
          JObject(ToDict([NewEvent(Standup, "a", 1, "") EXCEPT !.notified = TRUE])),
          JObject(ToDict(NewEvent(LateCall, "a", 2, ""))) >>)])),
      FileJson(JObject([events |-> JArray(<<
          JObject(ToDict(NewEvent(Garbled, "g", 1, ""))),
          JObject(ToDict(NewEvent(Standup, "s", 2, ""))),
          JObject(ToDict(NewEvent(Standup, "t", 3, ""))) >>)])),
      FileJson(JObject([events |-> JArray(<<
          JObject(ToDict([NewEvent(Muted, "m", 1, "") EXCEPT !.notified = TRUE])),
          JObject(ToDict([NewEvent(Garbled, "h", 2, "") EXCEPT !.notified = TRUE])) >>)])) }

\* the listeners a caller registers: one that returns, one that raises
ListenerKinds == {"returns", "raises"}

(***************************************************************************)
(* State.                                                                  *)
(***************************************************************************)
VARIABLES
    events,        \* EventManager.events
    file,          \* the document at EventManager.events_file
    timeout_id,    \* EventManager._notification_timeout_id
    callbacks,     \* EventManager._callbacks
    sources,       \* the sources attached to the GLib main context
    now,           \* the index in Instants of the clock's value
    uuids,         \* the number of uuid4() values drawn
    last,          \* what the last operation did, as its caller observes it
    delivered,     \* the ids the sink showed a reminder for, since their last edit
    idle_runs,     \* how often the idle source has dispatched
    torn_down      \* cleanup() has been called

vars == <<events, file, timeout_id, callbacks, sources, now, uuids, last,
          delivered, idle_runs, torn_down>>

\* the observation of an operation that returns None and does nothing else:
\* calls are the calls made to the listeners, removed the source ids handed
\* to GLib.source_remove, seen what the caller got to see of the store
Quiet(op) ==
    [op |-> op, arg |-> "", ret |-> "None", raised |-> FALSE, saves |-> 0,
     io_failed |-> FALSE, cbs |-> 0, sent |-> <<>>, calls |-> <<>>,
     removed |-> <<>>, seen |-> None]

Ids(evs) == {evs[i].id : i \in 1..Len(evs)}

\* the identity of an object that is none of the list's
FreshObj(evs) ==
    CHOOSE n \in 1..(Len(evs) + 1) :
        /\ \A i \in 1..Len(evs) : evs[i].obj # n
        /\ \A k \in 1..(n - 1) : \E i \in 1..Len(evs) : evs[i].obj = k

\* object identities renamed in order of first occurrence: which name an
\* object bears is no state of the program
Canon(evs) ==
    LET first(i) == CHOOSE j \in 1..i :
                        /\ evs[j].obj = evs[i].obj
                        /\ \A k \in 1..(j - 1) : evs[k].obj # evs[i].obj
        rank(i) == Cardinality({evs[j].obj : j \in 1..first(i)})
    IN  [i \in 1..Len(evs) |-> [evs[i] EXCEPT !.obj = rank(i)]]


(***************************************************************************)
(* The store: EventManager's mutators, as functions of the list.  Each    *)
(* yields the list and the file it leaves and what the caller observes.   *)
(***************************************************************************)
\* the position of the first event with this id, 0 when there is none
FirstWithId(evs, id) ==
    IF id \in Ids(evs)
    THEN CHOOSE i \in 1..Len(evs) :
            evs[i].id = id /\ \A j \in 1..(i - 1) : evs[j].id # id
    ELSE 0

\* del evs[i]
DeleteAt(evs, i) == SubSeq(evs, 1, i - 1) \o SubSeq(evs, i + 1, Len(evs))

\* _notify_callbacks with the loop left at the first listener that raises
NotifyCallbacksStopsAtRaise(cbs, evs, f) ==
    LET stop == IF \E k \in 1..Len(cbs) : cbs[k] = "raises"
                THEN CHOOSE k \in 1..Len(cbs) :
                        /\ cbs[k] = "raises"
                        /\ \A j \in 1..(k - 1) : cbs[j] # "raises"
                ELSE Len(cbs)
    IN  [k \in 1..stop |->
            [listener |-> k, outcome |-> cbs[k], events |-> evs, file |-> f]]

\* EventManager._notify_callbacks: the calls it makes, in order, each with
\* the list and the file as the listener finds them; a listener that raises
\* is caught and the loop goes on
NotifyCallbacks(cbs, evs, f) ==
    [k \in 1..Len(cbs) |->
        [listener |-> k, outcome |-> cbs[k], events |-> evs, file |-> f]]

\* a mutator that notifies the listeners before it saves
MutatedNotifiesBeforeSave(op, id, evs, old_file, disk, cbs) ==
    LET calls == NotifyCallbacks(cbs, Canon(evs), old_file)
    IN  [events |-> Canon(evs),
         file |-> SaveEvents(evs, old_file, disk),
         obs |-> [Quiet(op) EXCEPT !.arg = id, !.ret = "True", !.saves = 1,
                     !.io_failed = (disk # "ok"), !.cbs = Len(calls),
                     !.calls = calls]]

\* a mutator whose save lets the IOError through: the list keeps the
\* mutation, no listener is called and the caller gets the exception
MutatedRaisesOnFailure(op, id, evs, old_file, disk, cbs) ==
    LET saved == SaveEvents(evs, old_file, disk)
        calls == IF disk = "ok" THEN NotifyCallbacks(cbs, Canon(evs), saved)
                 ELSE <<>>
    IN  [events |-> Canon(evs),
         file |-> saved,
         obs |-> [Quiet(op) EXCEPT !.arg = id,
                     !.ret = IF disk = "ok" THEN "True" ELSE "None",
                     !.raised = (disk # "ok"), !.saves = 1,
                     !.io_failed = (disk # "ok"), !.cbs = Len(calls),
                     !.calls = calls]]

\* the outcome of a mutator that saved and notified; id is the identifier
\* it was called with
Mutated(op, id, evs, old_file, disk, cbs) ==
    LET saved == SaveEvents(evs, old_file, disk)
        calls == NotifyCallbacks(cbs, Canon(evs), saved)
    IN  [events |-> Canon(evs),
         file |-> saved,
         obs |-> [Quiet(op) EXCEPT !.arg = id, !.ret = "True", !.saves = 1,
                     !.io_failed = (disk # "ok"), !.cbs = Len(calls),
                     !.calls = calls]]

\* the outcome of a mutator that found no event with the id
Missed(op, id, evs, old_file) ==
    [events |-> evs,
     file |-> old_file,
     obs |-> [Quiet(op) EXCEPT !.arg = id, !.ret = "False"]]

\* add_event that inserts the event at the head of the list
AddEventPrepends(evs, old_file, event, disk, cbs) ==
    Mutated("add", event.id, <<event>> \o evs, old_file, disk, cbs)

\* EventManager.add_event
AddEvent(evs, old_file, event, disk, cbs) ==
    Mutated("add", event.id, Append(evs, event), old_file, disk, cbs)

\* update_event with the save and the notification moved out of the branch
\* that found the event: they run on a miss too
UpdateEventSavesOnMiss(evs, old_file, event, disk, cbs) ==
    LET i == FirstWithId(evs, event.id)
    IN  IF i # 0
        THEN Mutated("update", event.id, [evs EXCEPT ![i] = event], old_file, disk, cbs)
        ELSE [events |-> evs,
              file |-> SaveEvents(evs, old_file, disk),
              obs |-> [Quiet("update") EXCEPT !.arg = event.id, !.ret = "False",
                          !.saves = 1, !.io_failed = (disk # "ok"),
                          !.cbs = Len(cbs),
                          !.calls = NotifyCallbacks(cbs, evs,
                                        SaveEvents(evs, old_file, disk))]]

\* EventManager.update_event
UpdateEvent(evs, old_file, event, disk, cbs) ==
    LET i == FirstWithId(evs, event.id)
    IN  IF i # 0
        THEN Mutated("update", event.id, [evs EXCEPT ![i] = event], old_file, disk, cbs)
        ELSE Missed("update", event.id, evs, old_file)

\* EventManager.remove_event
RemoveEvent(evs, old_file, event_id, disk, cbs) ==
    LET i == FirstWithId(evs, event_id)
    IN  IF i # 0
        THEN Mutated("remove", event_id, DeleteAt(evs, i), old_file, disk, cbs)
        ELSE Missed("remove", event_id, evs, old_file)

(***************************************************************************)
(* The edit of an event: AddEventDialog._on_save with editing_event set.   *)
(***************************************************************************)
\* the assignments of _on_save to the object: the date is not assigned
Assigned(e, form, notified) ==
    [e EXCEPT !.title = form.title,
              !.description = form.description,
              !.time = form.time,
              !.notify = form.notify,
              !.notify_minutes_before = form.notify_minutes_before,
              !.notified = notified]

\* _on_save without the assignment editing_event.notified = False
OnSaveEditKeepsNotified(evs, old_file, i, form, disk, cbs) ==
    LET edited == [k \in 1..Len(evs) |->
                      IF evs[k].obj = evs[i].obj
                      THEN Assigned(evs[k], form, evs[k].notified)
                      ELSE evs[k]]
        r == UpdateEvent(edited, old_file, edited[i], disk, cbs)
    IN  [r EXCEPT !.obs.op = "edit", !.obs.seen = evs[i]]

\* _on_save on the dialog's editing_event, the object of the i-th entry:
\* the fields are assigned in place, seen through every entry that holds
\* the object, then update_event(editing_event); seen is the event as the
\* dialog was opened on it
OnSaveEdit(evs, old_file, i, form, disk, cbs) ==
    LET edited == [k \in 1..Len(evs) |->
                      IF evs[k].obj = evs[i].obj
                      THEN Assigned(evs[k], form, FALSE)
                      ELSE evs[k]]
        r == UpdateEvent(edited, old_file, edited[i], disk, cbs)
    IN  [r EXCEPT !.obs.op = "edit", !.obs.seen = evs[i]]

(***************************************************************************)
(* The queries and the order in which the dialogs list their result.       *)
(***************************************************************************)
\* get_events_for_date that returns at the first event of the date
GetEventsForDateFirstOnly(evs, date_str) ==
    IF \E i \in 1..Len(evs) : evs[i].date = date_str
    THEN << evs[CHOOSE i \in 1..Len(evs) :
                /\ evs[i].date = date_str
                /\ \A j \in 1..(i - 1) : evs[j].date # date_str] >>
    ELSE <<>>

\* EventManager.get_events_for_date
GetEventsForDate(evs, date_str) == SelectSeq(evs, LAMBDA e : e.date = date_str)

\* EventManager.get_dates_with_events
GetDatesWithEvents(evs) == {evs[i].date : i \in 1..Len(evs)}

\* the key of events.sort: lambda e: (e.time == "", e.time)
SortKey(e) == <<e.time = <<>>, e.time>>

\* k1 < k2 for two such tuples: False < True, then the strings
KeyLess(k1, k2) ==
    IF k1[1] # k2[1] THEN (~k1[1]) /\ k2[1] ELSE StrLess(k1[2], k2[2])

\* list.sort(key=...), which is stable: each event goes behind the events
\* before it whose key is not greater than its own
RECURSIVE SortByKey(_)
SortByKey(evs) ==
    IF evs = <<>> THEN <<>>
    ELSE LET sorted == SortByKey(SubSeq(evs, 1, Len(evs) - 1))
             e == evs[Len(evs)]
             pos == Cardinality({k \in 1..Len(sorted) :
                        ~KeyLess(SortKey(e), SortKey(sorted[k]))})
         IN  SubSeq(sorted, 1, pos) \o <<e>> \o SubSeq(sorted, pos + 1, Len(sorted))

(***************************************************************************)
(* The scan: EventManager._check_notifications.                            *)
(***************************************************************************)
\* the date strings and the time strings an event of the inputs can carry
\* (the empty string is Event.from_dict's default for a missing key)
InputDates == {a.date : a \in EventArgs} \cup {<<>>}

InputTimes == {a.time : a \in EventArgs} \cup {<<>>, Garbled.time}

\* f as a function with its values computed
Tabulated(f) == f @@ <<>>

\* Event.get_datetime on each of them, computed once
ParsedInputs ==
    Tabulated([k \in InputDates \X InputTimes |-> ParseDatetime(k[1], k[2])])

\* Event.get_datetime
GetDatetime(e) == ParsedInputs[<<e.date, e.time>>]

\* datetime.now() at the n-th instant
NowDatetime ==
    Tabulated([n \in 1..Len(Instants) |->
        MkDatetime(Instants[n].y, Instants[n].m, Instants[n].d,
                   Instants[n].hh, Instants[n].mm, Instants[n].ss)])

\* now.strftime("%Y-%m-%d") at the n-th instant
Strftime ==
    Tabulated([n \in 1..Len(Instants) |->
        Pad(4, Instants[n].y) \o <<"-">> \o Pad(2, Instants[n].m)
            \o <<"-">> \o Pad(2, Instants[n].d)])

\* now >= notify_time and now <= event_dt + timedelta(hours=1)
TimeToNotify(e, event_dt, n) ==
    /\ DtLeq(PlusSeconds(event_dt, 0 - (60 * e.notify_minutes_before)), NowDatetime[n])
    /\ DtLeq(NowDatetime[n], PlusSeconds(event_dt, 3600))

\* event.notified = v, seen through every entry that holds the object
SetNotified(evs, obj, v) ==
    [i \in 1..Len(evs) |->
        IF evs[i].obj = obj THEN [evs[i] EXCEPT !.notified = v] ELSE evs[i]]

\* EventManager._send_notification: the call it hands to the sink; every
\* exception of the sink is caught inside it
SendNotification(e, sink) == [id |-> e.id, shown |-> sink]

\* the delivery pass with the loop left at the first event that
\* get_datetime gives None for
RECURSIVE DeliveryPassStopsAtUnparseable(_, _, _, _, _)
DeliveryPassStopsAtUnparseable(i, st, n, sink, disk) ==
    IF i > Len(st.events) THEN st
    ELSE LET e == st.events[i]
             event_dt == GetDatetime(e)
             next(s) == DeliveryPassStopsAtUnparseable(i + 1, s, n, sink, disk)
         IN  IF (~e.notify) \/ e.notified THEN next(st)
             ELSE IF event_dt = None THEN st
             ELSE IF TimeToNotify(e, event_dt, n)
                  THEN LET evs == SetNotified(st.events, e.obj, TRUE)
                       IN  next([events |-> evs,
                                 file |-> SaveEvents(evs, st.file, disk),
                                 sent |-> Append(st.sent, SendNotification(e, sink)),
                                 saves |-> st.saves + 1])
                  ELSE next(st)

\* the delivery pass with the notify flag of the events left unread
RECURSIVE DeliveryPassIgnoresNotify(_, _, _, _, _)
DeliveryPassIgnoresNotify(i, st, n, sink, disk) ==
    IF i > Len(st.events) THEN st
    ELSE LET e == st.events[i]
             event_dt == GetDatetime(e)
             next(s) == DeliveryPassIgnoresNotify(i + 1, s, n, sink, disk)
         IN  IF e.notified THEN next(st)
             ELSE IF event_dt = None THEN next(st)
             ELSE IF TimeToNotify(e, event_dt, n)
                  THEN LET evs == SetNotified(st.events, e.obj, TRUE)
                       IN  next([events |-> evs,
                                 file |-> SaveEvents(evs, st.file, disk),
                                 sent |-> Append(st.sent, SendNotification(e, sink)),
                                 saves |-> st.saves + 1])
                  ELSE next(st)

\* the delivery pass from entry i on; st is the list, the file, the calls
\* made to the sink and the number of saves so far
RECURSIVE DeliveryPass(_, _, _, _, _)
DeliveryPass(i, st, n, sink, disk) ==
    IF i > Len(st.events) THEN st
    ELSE LET e == st.events[i]
             event_dt == GetDatetime(e)
         IN  IF (~e.notify) \/ e.notified THEN DeliveryPass(i + 1, st, n, sink, disk)
             ELSE IF event_dt = None THEN DeliveryPass(i + 1, st, n, sink, disk)
             ELSE IF TimeToNotify(e, event_dt, n)
                  THEN LET evs == SetNotified(st.events, e.obj, TRUE)
                       IN  DeliveryPass(i + 1,
                               [events |-> evs,
                                file |-> SaveEvents(evs, st.file, disk),
                                sent |-> Append(st.sent, SendNotification(e, sink)),
                                saves |-> st.saves + 1],
                               n, sink, disk)
                  ELSE DeliveryPass(i + 1, st, n, sink, disk)

\* the stale pass with the events whose reminder is switched off left out
StalePassSkipsMuted(evs, n) ==
    [i \in 1..Len(evs) |->
        IF StrLess(evs[i].date, Strftime[n]) /\ evs[i].notified /\ evs[i].notify
        THEN [evs[i] EXCEPT !.notified = FALSE]
        ELSE evs[i]]

\* the pass that resets the flag of the events of past dates
StalePass(evs, n) ==
    [i \in 1..Len(evs) |->
        IF StrLess(evs[i].date, Strftime[n]) /\ evs[i].notified
        THEN [evs[i] EXCEPT !.notified = FALSE]
        ELSE evs[i]]

\* _check_notifications that returns False when a save of it failed
CheckNotificationsStopsOnFailedSave(evs, old_file, n, sink, disk) ==
    LET st == DeliveryPass(1, [events |-> evs, file |-> old_file,
                               sent |-> <<>>, saves |-> 0], n, sink, disk)
        failed == st.saves > 0 /\ disk # "ok"
    IN  [events |-> StalePass(st.events, n),
         file |-> st.file,
         obs |-> [Quiet("scan") EXCEPT
                     !.ret = IF failed THEN "False" ELSE "True",
                     !.saves = st.saves, !.io_failed = failed, !.sent = st.sent]]

\* _check_notifications that calls the change listeners after a scan that
\* flagged an event
CheckNotificationsNotifiesListeners(evs, old_file, n, sink, disk) ==
    LET st == DeliveryPass(1, [events |-> evs, file |-> old_file,
                               sent |-> <<>>, saves |-> 0], n, sink, disk)
        calls == IF st.saves > 0
                 THEN NotifyCallbacks(callbacks, st.events, st.file)
                 ELSE <<>>
    IN  [events |-> StalePass(st.events, n),
         file |-> st.file,
         obs |-> [Quiet("scan") EXCEPT !.ret = "True", !.saves = st.saves,
                     !.io_failed = (st.saves > 0 /\ disk # "ok"),
                     !.sent = st.sent, !.calls = calls, !.cbs = Len(calls)]]

\* EventManager._check_notifications; it returns True
CheckNotifications(evs, old_file, n, sink, disk) ==
    LET st == DeliveryPass(1, [events |-> evs, file |-> old_file,
                               sent |-> <<>>, saves |-> 0], n, sink, disk)
    IN  [events |-> StalePass(st.events, n),
         file |-> st.file,
         obs |-> [Quiet("scan") EXCEPT !.ret = "True", !.saves = st.saves,
                     !.io_failed = (st.saves > 0 /\ disk # "ok"),
                     !.sent = st.sent]]


(***************************************************************************)
(* EventManager.__init__ on a fresh profile: no events file, the list     *)
(* loaded from it, the periodic source and the idle source attached.      *)
(***************************************************************************)
Init ==
    /\ file = FileMissing
    /\ events = LoadEvents(FileMissing, <<>>, 0).events
    /\ timeout_id = [source |-> "timeout"]
    /\ callbacks = <<>>
    /\ sources = {"timeout", "idle"}
    /\ now = 1
    /\ uuids = 0
    /\ last = Quiet("init")
    /\ delivered = {}
    /\ idle_runs = 0
    /\ torn_down = FALSE

Scheduler == <<timeout_id, sources, idle_runs, torn_down>>

\* a caller stores the outcome r of a mutator on the event with this id
Store(r, id) ==
    /\ events' = r.events
    /\ file' = r.file
    /\ last' = r.obs
    /\ delivered' = IF r.obs.ret = "True" THEN delivered \ {id} ELSE delivered

\* add_event(Event(...)) without event_id: the identifier is a uuid4()
AddFresh(Args, Disks) ==
    \E args \in Args, disk \in Disks :
        /\ Len(events) < MaxEvents
        /\ uuids < MaxUuid
        /\ Store(AddEvent(events, file,
                     NewEvent(args, "", FreshObj(events), Uuid(uuids + 1)),
                     disk, callbacks), Uuid(uuids + 1))
        /\ uuids' = uuids + 1
        /\ UNCHANGED <<callbacks, now, Scheduler>>

\* add_event(Event(..., event_id=id))
AddWithId(Args, Disks) ==
    \E args \in Args, id \in CallerIds \cup Ids(events), disk \in Disks :
        /\ Len(events) < MaxEvents
        /\ Store(AddEvent(events, file,
                     NewEvent(args, id, FreshObj(events), ""), disk, callbacks), id)
        /\ UNCHANGED <<callbacks, now, uuids, Scheduler>>

\* add_event(e) with an object the list already holds
AddSame(Disks) ==
    \E i \in 1..Len(events), disk \in Disks :
        /\ Len(events) < MaxEvents
        /\ Store(AddEvent(events, file, events[i], disk, callbacks), events[i].id)
        /\ UNCHANGED <<callbacks, now, uuids, Scheduler>>

\* update_event(Event(..., event_id=id))
Update(Args, Disks) ==
    \E args \in Args, id \in CallerIds \cup Ids(events), disk \in Disks :
        /\ Store(UpdateEvent(events, file,
                     NewEvent(args, id, FreshObj(events), ""), disk, callbacks), id)
        /\ UNCHANGED <<callbacks, now, uuids, Scheduler>>

\* the edit dialog of a stored event is saved
Edit(Forms, Disks) ==
    \E i \in 1..Len(events), form \in Forms, disk \in Disks :
        /\ Store(OnSaveEdit(events, file, i, form, disk, callbacks), events[i].id)
        /\ UNCHANGED <<callbacks, now, uuids, Scheduler>>

\* remove_event(id)
Remove(Disks) ==
    \E id \in CallerIds \cup Ids(events), disk \in Disks :
        /\ Store(RemoveEvent(events, file, id, disk, callbacks), id)
        /\ UNCHANGED <<callbacks, now, uuids, Scheduler>>

\* load_events()
Load ==
    LET r == LoadEvents(file, events, uuids)
    IN  /\ uuids + r.draws <= MaxUuid
        /\ events' = r.events
        /\ uuids' = uuids + r.draws
        /\ last' = [Quiet("load") EXCEPT !.raised = r.raised]
        /\ delivered' = {}
        /\ UNCHANGED <<file, callbacks, now, Scheduler>>

\* another writer replaces the events file
ExternalWrite ==
    \E doc \in FileSamples :
        /\ file' = doc
        /\ last' = Quiet("write")
        /\ UNCHANGED <<events, callbacks, now, uuids, delivered, Scheduler>>

\* register_callback(listener)
RegisterCallback ==
    \E kind \in ListenerKinds :
        /\ Len(callbacks) < MaxCallbacks
        /\ callbacks' = Append(callbacks, kind)
        /\ last' = Quiet("register")
        /\ UNCHANGED <<events, file, now, uuids, delivered, Scheduler>>

\* a caller asks for the events of a date and for the dates with events
Query ==
    \E d \in InputDates :
        /\ last' = [Quiet("query") EXCEPT !.seen =
                        [date |-> d,
                         events |-> GetEventsForDate(events, d),
                         dates |-> GetDatesWithEvents(events)]]
        /\ UNCHANGED <<events, file, callbacks, now, uuids, delivered, Scheduler>>

\* EventListDialog._load_events, AllEventsDialog._add_date_events: the
\* rows shown for a date
ShowDate ==
    \E d \in InputDates :
        /\ last' = [Quiet("show") EXCEPT !.seen =
                        [date |-> d,
                         rows |-> SortByKey(GetEventsForDate(events, d))]]
        /\ UNCHANGED <<events, file, callbacks, now, uuids, delivered, Scheduler>>

\* the main loop dispatches a source whose callback is _check_notifications
Dispatch(sink, disk) ==
    LET r == CheckNotifications(events, file, now, sink, disk)
    IN  /\ events' = r.events
        /\ file' = r.file
        /\ last' = r.obs
        /\ delivered' = delivered \cup
               {r.obs.sent[k].id : k \in {j \in 1..Len(r.obs.sent) : r.obs.sent[j].shown}}
        /\ UNCHANGED <<callbacks, now, uuids, timeout_id, torn_down>>

\* GLib keeps a source whose callback returns True and destroys one whose
\* callback returns False
AfterDispatch(source, ret) == IF ret = "True" THEN sources ELSE sources \ {source}

\* the source of GLib.timeout_add_seconds(30, ...) fires
TimeoutTick ==
    \E sink \in BOOLEAN, disk \in DiskOutcomes :
        /\ "timeout" \in sources
        /\ Dispatch(sink, disk)
        /\ sources' = AfterDispatch("timeout", last'.ret)
        /\ UNCHANGED idle_runs

\* the source of GLib.timeout_add_seconds(30, ...) fires; the outcomes of
\* the sink and of the disk are drawn from the given sets
TimeoutTickWith(Sinks, Disks) ==
    \E sink \in Sinks, disk \in Disks :
        /\ "timeout" \in sources
        /\ Dispatch(sink, disk)
        /\ sources' = AfterDispatch("timeout", last'.ret)
        /\ UNCHANGED idle_runs

\* the process ends and the application is started again: a new
\* EventManager with no listeners loads the list from the events file and
\* attaches its two sources; the file, the clock and what the desktop has
\* shown are those the old process left
Restart ==
    LET r == LoadEvents(file, <<>>, uuids)
    IN  /\ uuids + r.draws <= MaxUuid
        /\ events' = r.events
        /\ uuids' = uuids + r.draws
        /\ callbacks' = <<>>
        /\ timeout_id' = [source |-> "timeout"]
        /\ sources' = {"timeout", "idle"}
        /\ idle_runs' = 0
        /\ torn_down' = FALSE
        /\ last' = [Quiet("restart") EXCEPT !.raised = r.raised]
        /\ UNCHANGED <<file, now, delivered>>

\* the source of GLib.idle_add(...) is dispatched
IdleKick ==
    \E sink \in BOOLEAN, disk \in DiskOutcomes :
        /\ "idle" \in sources
        /\ idle_runs < MaxIdleRuns
        /\ Dispatch(sink, disk)
        /\ sources' = AfterDispatch("idle", last'.ret)
        /\ idle_runs' = idle_runs + 1

\* cleanup without the assignment _notification_timeout_id = None
CleanupKeepsId ==
    /\ IF timeout_id # None
       THEN /\ sources' = sources \ {timeout_id.source}
            /\ last' = [Quiet("cleanup") EXCEPT !.removed = <<timeout_id.source>>]
       ELSE /\ UNCHANGED sources
            /\ last' = Quiet("cleanup")
    /\ torn_down' = TRUE
    /\ UNCHANGED <<events, file, callbacks, now, uuids, delivered, idle_runs,
                   timeout_id>>

\* EventManager.cleanup
Cleanup ==
    /\ IF timeout_id # None
       THEN /\ sources' = sources \ {timeout_id.source}
            /\ timeout_id' = None
            /\ last' = [Quiet("cleanup") EXCEPT !.removed = <<timeout_id.source>>]
       ELSE /\ UNCHANGED <<sources, timeout_id>>
            /\ last' = Quiet("cleanup")
    /\ torn_down' = TRUE
    /\ UNCHANGED <<events, file, callbacks, now, uuids, delivered, idle_runs>>

\* the clock moves on
AdvanceTime ==
    \E n \in (now + 1)..Len(Instants) :
        /\ now' = n
        /\ last' = Quiet("time")
        /\ UNCHANGED <<events, file, callbacks, uuids, delivered, Scheduler>>

\* the store's operations, as the dialogs and other callers invoke them
StoreNext ==
    \/ AddFresh(StoreArgs, StoreDisks)
    \/ AddWithId(StoreArgs, StoreDisks)
    \/ AddSame(StoreDisks)
    \/ Update(StoreArgs, StoreDisks)
    \/ Remove(StoreDisks)
    \/ RegisterCallback

\* the persisted document: what is loaded from it, whoever wrote it
LoadNext ==
    \/ AddFresh(EventArgs, DiskOutcomes)
    \/ Remove(DiskOutcomes)
    \/ ExternalWrite
    \/ Load

\* the scheduler's steps, with the mutations the running application makes
SchedNext ==
    \/ AddFresh(EventArgs, {"ok"})
    \/ Update(EventArgs, {"ok"})
    \/ Remove({"ok"})
    \/ TimeoutTick
    \/ IdleKick
    \/ Cleanup
    \/ AdvanceTime

\* the store as the dialogs query and list it
ViewNext ==
    \/ AddFresh(ViewArgs, {"ok"})
    \/ Update(ViewArgs, {"ok"})
    \/ Remove({"ok"})
    \/ Query
    \/ ShowDate

\* the edits of the dialog between the scans
EditNext ==
    \/ AddFresh(EditArgs, {"ok"})
    \/ Edit(EditForms, StoreDisks)
    \/ TimeoutTick
    \/ AdvanceTime

\* the sources of the scheduler and their teardown, over a store that grows
TeardownNext ==
    \/ AddFresh(EditArgs, {"ok"})
    \/ TimeoutTick
    \/ IdleKick
    \/ Cleanup
    \/ AdvanceTime

\* the mutators on lists of every length a load brings into the store
OrderNext ==
    \/ ExternalWrite
    \/ Load
    \/ AddFresh(EditArgs, {"ok"})
    \/ Update(StoreArgs, {"ok"})
    \/ Remove({"ok"})

\* the mutators of the store alone, with disks that fail
PersistNext ==
    \/ AddFresh(StoreArgs, StoreDisks)
    \/ AddWithId(StoreArgs, StoreDisks)
    \/ AddSame(StoreDisks)
    \/ Update(StoreArgs, StoreDisks)
    \/ Remove(StoreDisks)

PersistSpec == Init /\ [][PersistNext]_vars

\* a store whose every save succeeds, scanned, added to and restarted
RestartNext ==
    \/ AddFresh({LateCall}, {"ok"})
    \/ TimeoutTickWith(BOOLEAN, {"ok"})
    \/ Restart
    \/ AdvanceTime

RestartSpec == Init /\ [][RestartNext]_vars

\* the scans of a store that has listeners registered
FrameNext ==
    \/ AddFresh(EditArgs, {"ok"})
    \/ RegisterCallback
    \/ TimeoutTick
    \/ AdvanceTime

FrameSpec == Init /\ [][FrameNext]_vars

\* the periodic source from its start on, with the list growing
TickNext ==
    \/ AddFresh(TickArgs, {"ok"})
    \/ TimeoutTick
    \/ Cleanup
    \/ AdvanceTime

\* the scan over what a reload of the events file brings into the list
ScanNext ==
    \/ ExternalWrite
    \/ Load
    \/ TimeoutTick
    \/ AdvanceTime

\* every step of the program
Next ==
    \/ AddFresh(EventArgs, DiskOutcomes)
    \/ AddWithId(EventArgs, DiskOutcomes)
    \/ AddSame(DiskOutcomes)
    \/ Update(EventArgs, DiskOutcomes)
    \/ Edit(EventArgs, DiskOutcomes)
    \/ Remove(DiskOutcomes)
    \/ RegisterCallback
    \/ ExternalWrite
    \/ Load
    \/ Query
    \/ ShowDate
    \/ TimeoutTick
    \/ IdleKick
    \/ Cleanup
    \/ Restart
    \/ AdvanceTime

Spec == Init /\ [][Next]_vars

\* the store alone: the clock stands still and no source is dispatched
StoreSpec == Init /\ [][StoreNext]_vars

\* the store and its file, with another writer of the file
LoadSpec == Init /\ [][LoadNext]_vars

\* the scheduler: the events file has no other writer and is not reloaded
SchedSpec == Init /\ [][SchedNext]_vars

\* the queries and the listing of their result
ViewSpec == Init /\ [][ViewNext]_vars

\* the edit dialog and the scheduler
EditSpec == Init /\ [][EditNext]_vars

\* the scheduler's sources from their start to after the teardown
TeardownSpec == Init /\ [][TeardownNext]_vars

\* the order of the store under its mutators
OrderSpec == Init /\ [][OrderNext]_vars

\* the periodic source under the main loop, which dispatches an attached
\* timeout source again and again
TickSpec == Init /\ [][TickNext]_vars /\ WF_vars(TimeoutTick)

\* the periodic scan of a list that is reloaded from a file others write
ScanSpec == Init /\ [][ScanNext]_vars


(***************************************************************************)
(* Properties of the scheduler, checked under SchedSpec.                   *)
(***************************************************************************)
\* the reminder window of the specification: notify_at <= now and
\* now <= event_instant + 1 hour, both bounds included
InReminderWindow(e, n) ==
    LET event_instant == GetDatetime(e)
        notify_at == PlusSeconds(event_instant, 0 - (60 * e.notify_minutes_before))
    IN  /\ DtLeq(notify_at, NowDatetime[n])
        /\ DtLeq(NowDatetime[n], PlusSeconds(event_instant, 3600))

\* the ids a scan's observation says the sink showed a reminder for
Shown(obs) == {obs.sent[k].id : k \in {j \in 1..Len(obs.sent) : obs.sent[j].shown}}

\* the ids a scan's observation says were handed to the sink
Handed(obs) == {obs.sent[k].id : k \in 1..Len(obs.sent)}

\* C1: a reminder the sink has shown for an event is not shown again by a
\* later scan, as long as the event is not edited (added, updated or removed
\* under its id) in between.
C1_DeliveredAtMostOnce ==
    [][last'.op = "scan" => Shown(last') \cap delivered = {}]_vars

\* C2: after a scan, every event whose delivery failed in that scan has
\* notified = false.
C2_FailedDeliveryStaysUnnotified ==
    last.op = "scan" =>
        \A k \in 1..Len(last.sent) :
            ~last.sent[k].shown =>
                \A i \in 1..Len(events) :
                    events[i].id = last.sent[k].id => ~events[i].notified

\* C3: a scan in which the sink works hands an event with notify = true,
\* notified = false and a parseable date and time to the sink exactly when
\* now lies in its reminder window, and leaves it flagged notified exactly
\* then.
C3_ReminderWindow ==
    [][(last'.op = "scan" /\ Shown(last') = Handed(last')) =>
        \A i \in 1..Len(events) :
            (events[i].notify /\ ~events[i].notified /\ GetDatetime(events[i]) # None)
            => /\ InReminderWindow(events[i], now) <=> events[i].id \in Handed(last')
               /\ InReminderWindow(events[i], now) <=> events'[i].notified]_vars

\* C4: once cleanup has been called, no scan runs.
C4_NoScanAfterTeardown == torn_down => last.op # "scan"

\* C5: the idle source (the immediate kick) runs the scan once and no more.
C5_ImmediateKickOnce == idle_runs <= 1

\* C6: a scan in which no write failed, started with the file equal to the
\* serialization of the list, ends with the file equal to the serialization
\* of the list.
C6_ScanPersists ==
    [][(last'.op = "scan" /\ ~last'.io_failed /\ file = Document(events))
        => file' = Document(events')]_vars

(***************************************************************************)
(* Properties of the store, checked under StoreSpec and LoadSpec.          *)
(***************************************************************************)
\* C7: the ids of the events in the store are pairwise distinct.
C7_UniqueIds ==
    \A i \in 1..Len(events) : \A j \in 1..Len(events) :
        i # j => events[i].id # events[j].id

\* a document of the shape save_events writes: an object whose "events" is a
\* list of objects
WellShaped(doc) ==
    /\ doc.kind = "json"
    /\ doc.value.t = "object"
    /\ "events" \in DOMAIN doc.value.members
    /\ doc.value.members.events.t = "array"
    /\ \A i \in 1..Len(doc.value.members.events.items) :
            doc.value.members.events.items[i].t = "object"

\* C8: load_events never raises, and leaves the list empty when the file is
\* missing or is anything but a well-shaped document.
C8_LoadNeverRaises ==
    last.op = "load" =>
        /\ ~last.raised
        /\ ~WellShaped(file) => events = <<>>

\* C9: update_event with an id that no stored event has returns False,
\* leaves the list and the file as they were and invokes no listener.
C9_UpdateMiss ==
    [][(last'.op = "update" /\ last'.arg \notin Ids(events))
        => /\ last'.ret = "False"
           /\ events' = events
           /\ file' = file
           /\ last'.saves = 0
           /\ last'.cbs = 0]_vars

\* C9 happens: an update missed while the store held an event and a listener
\* was registered.
C9_UpdateMissWitness ==
    /\ last.op = "update"
    /\ last.ret = "False"
    /\ Len(events) > 0
    /\ Len(callbacks) > 0

\* C10: remove_event with an id that no stored event has returns False,
\* leaves the list and the file as they were and invokes no listener; and
\* after a remove that succeeded the id is such an id, so that removing it
\* again is this no-op.
C10_IdempotentDelete ==
    [][/\ (last'.op = "remove" /\ last'.arg \notin Ids(events))
            => /\ last'.ret = "False"
               /\ events' = events
               /\ file' = file
               /\ last'.saves = 0
               /\ last'.cbs = 0
       /\ (last'.op = "remove" /\ last'.ret = "True")
            => last'.arg \notin Ids(events')]_vars

\* the store's mutators
Mutators == {"add", "update", "remove"}

\* the mutation op(arg) is applied: after is before with an event of this
\* id appended, with the first event of this id replaced by one of this id,
\* or with one event less
Applied(op, arg, before, after) ==
    CASE op = "add" ->
            /\ Len(after) = Len(before) + 1
            /\ after[Len(after)].id = arg
      [] op = "update" ->
            /\ Len(after) = Len(before)
            /\ arg \in Ids(before)
            /\ after[FirstWithId(before, arg)].id = arg
      [] OTHER -> Len(after) = Len(before) - 1

\* C11: a mutator that succeeds calls every registered listener once, in
\* registration order, and each listener finds the list with the mutation
\* applied and the file as the save left it.
C11_ListenersAfterMutation ==
    [][(last'.op \in Mutators /\ last'.ret = "True")
        => /\ Len(last'.calls) = Len(callbacks)
           /\ Applied(last'.op, last'.arg, events, events')
           /\ \A k \in 1..Len(callbacks) :
                  /\ last'.calls[k].listener = k
                  /\ last'.calls[k].events = events'
                  /\ last'.calls[k].file = file']_vars

\* C11 happens: a mutator succeeded and saved with two listeners registered.
C11_ListenersAfterMutationWitness ==
    /\ last.op \in Mutators
    /\ last.ret = "True"
    /\ ~last.io_failed
    /\ Len(last.calls) = 2
    /\ Len(events) > 0

\* C12: when a listener raises during a mutator, the mutator does not
\* raise and returns True, every listener registered after it is called
\* too, the registry keeps every listener and the mutation stays applied.
C12_FailingListenerIsolated ==
    [][(last'.op \in Mutators /\ last'.ret # "False"
            /\ \E k \in 1..Len(callbacks) : callbacks[k] = "raises")
        => /\ ~last'.raised
           /\ last'.ret = "True"
           /\ \A k \in 1..Len(callbacks) :
                  \E c \in 1..Len(last'.calls) : last'.calls[c].listener = k
           /\ callbacks' = callbacks
           /\ Applied(last'.op, last'.arg, events, events')]_vars

\* C12 happens: a mutator succeeded with two listeners registered, the
\* first of which raises.
C12_FailingListenerIsolatedWitness ==
    /\ last.op \in Mutators
    /\ last.ret = "True"
    /\ Len(callbacks) = 2
    /\ callbacks[1] = "raises"
    /\ Len(last.calls) = 2

\* C13: when the write of a mutator's save fails, the mutator does not
\* raise and returns True, the list keeps the mutation and every listener
\* is called.
C13_FailedSaveDoesNotThrow ==
    [][(last'.op \in Mutators /\ last'.io_failed)
        => /\ ~last'.raised
           /\ last'.ret = "True"
           /\ Applied(last'.op, last'.arg, events, events')
           /\ Len(last'.calls) = Len(callbacks)]_vars

\* C13 happens: the save of a mutator failed while the store held an event
\* and a listener was registered.
C13_FailedSaveDoesNotThrowWitness ==
    /\ last.op \in Mutators
    /\ last.io_failed
    /\ file = FileNoJson
    /\ Len(events) > 0
    /\ Len(callbacks) > 0

\* C17: a cleanup call hands the periodic source to GLib.source_remove
\* when it is the first call, and only then; the source it hands over is
\* attached, the call does not raise and leaves no id stored.
C17_TeardownIdempotent ==
    [][last'.op = "cleanup"
        => /\ ~last'.raised
           /\ last'.removed = IF torn_down THEN <<>> ELSE <<"timeout">>
           /\ \A k \in 1..Len(last'.removed) : last'.removed[k] \in sources
           /\ timeout_id' = None
           /\ "timeout" \notin sources']_vars

\* C17 happens: cleanup has been called a second time and released
\* nothing.
C17_TeardownIdempotentWitness ==
    /\ last.op = "cleanup"
    /\ last.removed = <<>>
    /\ torn_down
    /\ timeout_id = None

(***************************************************************************)
(* Properties of the edit, checked under EditSpec.                         *)
(***************************************************************************)
\* C19: the save of an edit succeeds and leaves the edited event unflagged
\* in the list and, when the write works, in the file; and a scan hands
\* every unflagged event with notify = true and a parseable date and time
\* whose reminder window holds now to the sink, the edited one included.
C19_EditRearms ==
    [][/\ last'.op = "edit"
            => /\ last'.ret = "True"
               /\ \A i \in 1..Len(events') :
                      events'[i].id = last'.arg => ~events'[i].notified
               /\ ~last'.io_failed => file' = Document(events')
       /\ last'.op = "scan"
            => \A i \in 1..Len(events) :
                  (events[i].notify /\ ~events[i].notified
                        /\ GetDatetime(events[i]) # None
                        /\ InReminderWindow(events[i], now))
                  => events[i].id \in Handed(last')]_vars

\* C19 happens: the edit of an event that was flagged has been saved at an
\* instant in the reminder window of the edited event.
C19_EditRearmsWitness ==
    /\ last.op = "edit"
    /\ last.seen.notified
    /\ ~last.io_failed
    /\ \E i \in 1..Len(events) :
            /\ events[i].id = last.arg
            /\ events[i].notify
            /\ InReminderWindow(events[i], now)

(***************************************************************************)
(* Properties of the scan, checked under ScanSpec.                         *)
(***************************************************************************)
\* the event's date is strictly before today's date, as strings of the
\* form YYYY-MM-DD
DatedBefore(e, n) == StrLess(e.date, Strftime[n])

\* C14: after a scan every event dated before today is unflagged, whatever
\* its notify flag and its flag before the scan; the flag of a flagged
\* event dated today or later is not reset.
C14_StaleReset ==
    [][last'.op = "scan"
        => /\ Len(events') = Len(events)
           /\ \A i \in 1..Len(events) :
                  /\ DatedBefore(events[i], now) => ~events'[i].notified
                  /\ (~DatedBefore(events[i], now) /\ events[i].notified)
                        => events'[i].notified]_vars

\* C14 happens: a scan has left unflagged an event dated before today whose
\* reminder is switched off and which the file it was loaded from shows
\* flagged.
C14_StaleResetWitness ==
    /\ last.op = "scan"
    /\ WellShaped(file)
    /\ \E i \in 1..Len(events) :
            /\ ~events[i].notify
            /\ ~events[i].notified
            /\ DatedBefore(events[i], now)
            /\ i <= Len(file.value.members.events.items)
            /\ file.value.members.events.items[i].members.id = events[i].id
            /\ file.value.members.events.items[i].members.notified

\* C20: a scan does not raise; an event that get_datetime gives None for
\* is not flagged by it and keeps its flag unless it is dated before today;
\* whatever the other events are and whether or not the sink fails, every
\* event with notify = true, notified = false and a parseable date and time
\* whose reminder window holds now is handed to the sink, and the stale pass
\* runs.
C20_ScanSurvivesFaults ==
    [][last'.op = "scan"
        => /\ ~last'.raised
           /\ Len(events') = Len(events)
           /\ \A i \in 1..Len(events) :
                  /\ GetDatetime(events[i]) = None
                        => /\ events'[i].notified => events[i].notified
                           /\ ~DatedBefore(events[i], now)
                                 => events'[i].notified = events[i].notified
                  /\ (events[i].notify /\ ~events[i].notified
                        /\ GetDatetime(events[i]) # None)
                        => (InReminderWindow(events[i], now)
                                => events[i].id \in Handed(last'))
                  /\ DatedBefore(events[i], now) => ~events'[i].notified]_vars

\* C20 happens: a scan has passed over an unflagged event that
\* get_datetime gives None for, and has handed two later events to a sink
\* that failed.
C20_ScanSurvivesFaultsWitness ==
    /\ last.op = "scan"
    /\ Len(last.sent) = 2
    /\ ~last.sent[1].shown
    /\ \E i \in 1..Len(events) :
            /\ GetDatetime(events[i]) = None
            /\ events[i].notify
            /\ ~events[i].notified
            /\ \E j \in (i + 1)..Len(events) : events[j].id = last.sent[1].id
            /\ \E j \in (i + 1)..Len(events) : events[j].id = last.sent[2].id

(***************************************************************************)
(* Properties of the serialization, checked under LoadSpec.                *)
(***************************************************************************)
\* e1 and e2 agree in the eight fields of an event
SameFields(e1, e2) ==
    /\ e1.id = e2.id
    /\ e1.title = e2.title
    /\ e1.date = e2.date
    /\ e1.time = e2.time
    /\ e1.description = e2.description
    /\ e1.notify = e2.notify
    /\ e1.notify_minutes_before = e2.notify_minutes_before
    /\ e1.notified = e2.notified

\* C15: from_dict(to_dict(e)) agrees with e in every field, for every event
\* e of the store; and a load of the file that a save of the list wrote
\* does not raise and leaves a list of the same length whose events agree
\* with the old ones in every field, position by position.
C15_RoundTrip ==
    [][/\ \A i \in 1..Len(events) :
              SameFields(FromDict(ToDict(events[i]), events[i].obj, Uuid(uuids + 1)),
                         events[i])
       /\ (last'.op = "load" /\ file = Document(events))
            => /\ ~last'.raised
               /\ uuids' = uuids
               /\ Len(events') = Len(events)
               /\ \A i \in 1..Len(events) : SameFields(events'[i], events[i])]_vars

\* C15 happens: a load has read back a file that save_events wrote, with a
\* flagged event in the list.
C15_RoundTripWitness ==
    /\ last.op = "load"
    /\ ~last.raised
    /\ file = Document(events)
    /\ file \notin FileSamples
    /\ \E i \in 1..Len(events) : events[i].notified

(***************************************************************************)
(* Properties of the queries and of the listing, checked under ViewSpec.   *)
(***************************************************************************)
\* C16: get_events_for_date(d) returns the stored events whose date is d,
\* all of them and in store order, and get_dates_with_events() returns the
\* dates of the stored events: d is among them exactly when the events of
\* d are not empty.
C16_QueryCorrectness ==
    last.op = "query" =>
        LET d == last.seen.date
            r == last.seen.events
            on == {i \in 1..Len(events) : events[i].date = d}
        IN  /\ Len(r) = Cardinality(on)
            /\ \E f \in [1..Len(r) -> on] :
                    /\ \A k \in 1..Len(r) : r[k] = events[f[k]]
                    /\ \A k1, k2 \in 1..Len(r) : k1 < k2 => f[k1] < f[k2]
            /\ last.seen.dates =
                    {dd \in InputDates : \E i \in 1..Len(events) : events[i].date = dd}
            /\ \A i \in 1..Len(events) : events[i].date \in last.seen.dates
            /\ d \in last.seen.dates <=> Len(r) > 0

\* C16 happens: a query of a store with events on two dates has returned
\* the one event of its date, the second of the store.
C16_QueryCorrectnessWitness ==
    /\ last.op = "query"
    /\ Len(events) = 2
    /\ Len(last.seen.events) = 1
    /\ last.seen.events[1] = events[2]
    /\ Cardinality(last.seen.dates) = 2

\* the position in the store of the event that a row shows
StorePosition(row) == CHOOSE i \in 1..Len(events) : events[i] = row

\* C18: in the rows a dialog shows for a date, every all-day event stands
\* before every timed event, the all-day events stand in store order and
\* the timed events in ascending order of their HH:MM.
C18_DisplayOrder ==
    last.op = "show" =>
        LET rows == last.seen.rows
        IN  \A k1, k2 \in 1..Len(rows) :
                k1 < k2 =>
                    /\ rows[k2].time = <<>> => rows[k1].time = <<>>
                    /\ (rows[k1].time = <<>> /\ rows[k2].time = <<>>)
                          => StorePosition(rows[k1]) < StorePosition(rows[k2])
                    /\ (rows[k1].time # <<>> /\ rows[k2].time # <<>>)
                          => ~StrLess(rows[k2].time, rows[k1].time)

(***************************************************************************)
(* Properties of the file and of the order of the store.                   *)
(***************************************************************************)
\* the JSON object is the serialization of the event: its eight keys with
\* the values of the event's fields
Serializes(item, e) ==
    /\ item.t = "object"
    /\ DOMAIN item.members = {"id", "title", "date", "time", "description",
                              "notify", "notify_minutes_before", "notified"}
    /\ SameFields(item.members, e)

\* C21: after add, update or remove succeeded and its write worked, the
\* file is an object whose "events" is the list of the serializations of
\* the events of the store, one for each and in store order; and a load of
\* that file does not raise and gives a list that agrees with the store in
\* every field, position by position.
C21_WholeFilePersistence ==
    [][(last'.op \in Mutators /\ last'.ret = "True" /\ ~last'.io_failed)
        => /\ WellShaped(file')
           /\ DOMAIN file'.value.members = {"events"}
           /\ Len(file'.value.members.events.items) = Len(events')
           /\ \A i \in 1..Len(events') :
                  Serializes(file'.value.members.events.items[i], events'[i])
           /\ LET r == LoadEvents(file', events', uuids')
              IN  /\ ~r.raised
                  /\ r.draws = 0
                  /\ Len(r.events) = Len(events')
                  /\ \A i \in 1..Len(events') :
                         SameFields(r.events[i], events'[i])]_vars

\* C21 happens: a mutator has succeeded and written a store of two events.
C21_WholeFilePersistenceWitness ==
    /\ last.op \in Mutators
    /\ last.ret = "True"
    /\ ~last.io_failed
    /\ Len(events) = 2
    /\ WellShaped(file)
    /\ Len(file.value.members.events.items) = 2

\* C22: add appends the event behind the events of the store, which stay
\* as they are; an update that succeeds replaces the first event with the
\* id and leaves every other position as it is; a remove that succeeds
\* deletes the first event with the id and leaves the events before it and
\* the events behind it in their order.
C22_InsertionOrder ==
    [][(last'.op \in Mutators /\ last'.ret = "True")
        => LET p == FirstWithId(events, last'.arg)
           IN  CASE last'.op = "add" ->
                       /\ Len(events') = Len(events) + 1
                       /\ events'[Len(events')].id = last'.arg
                       /\ \A i \in 1..Len(events) : SameFields(events'[i], events[i])
                 [] last'.op = "update" ->
                       /\ Len(events') = Len(events)
                       /\ p # 0
                       /\ events'[p].id = last'.arg
                       /\ \A i \in 1..Len(events) :
                              i # p => SameFields(events'[i], events[i])
                 [] OTHER ->
                       /\ Len(events') = Len(events) - 1
                       /\ p # 0
                       /\ \A i \in 1..(p - 1) : SameFields(events'[i], events[i])
                       /\ \A i \in p..Len(events') :
                              SameFields(events'[i], events[i + 1])]_vars

\* C22 happens: a remove has deleted the first of three events and left
\* the other two.
C22_InsertionOrderWitness ==
    /\ last.op = "remove"
    /\ last.ret = "True"
    /\ Len(events) = 2
    /\ events[1].id = "s"
    /\ events[2].id = "t"

(***************************************************************************)
(* Properties of the periodic source, checked under TickSpec.              *)
(***************************************************************************)
\* C23: every scan returns True, the periodic source stays attached as
\* long as cleanup has not been called, and a scan runs again and again
\* unless cleanup is called.
C23_TickNeverStops ==
    /\ [](last.op = "scan" => last.ret = "True")
    /\ [](~torn_down => "timeout" \in sources)
    /\ ([]<>(last.op = "scan") \/ <>torn_down)

\* C23 happens: a scan whose save failed, over a list with an event it
\* cannot parse, has left the periodic source attached.
C23_TickNeverStopsWitness ==
    /\ last.op = "scan"
    /\ last.io_failed
    /\ \E i \in 1..Len(events) : GetDatetime(events[i]) = None
    /\ ~torn_down
    /\ "timeout" \in sources

\* C24: a scan changes nothing but notified flags: the list keeps its length
\* and its order, every event keeps its id, title, date, time, description,
\* notify, notify_minutes_before and its object, the registered listeners
\* stay as they are and none of them is called
C24_ScanFrame ==
    [][last'.op = "scan" =>
          /\ Len(events') = Len(events)
          /\ \A i \in 1..Len(events) :
                 events'[i] = [events[i] EXCEPT !.notified = events'[i].notified]
          /\ callbacks' = callbacks
          /\ last'.calls = <<>>
          /\ last'.cbs = 0]_vars

\* a scan of two events, with a listener registered, that handed a reminder
\* to the sink and left an event flagged
C24_ScanFrameWitness ==
    /\ last.op = "scan"
    /\ Len(callbacks) > 0
    /\ Len(events) = 2
    /\ Len(last.sent) > 0
    /\ \E i \in 1..Len(events) : events[i].notified

\* C25: a scan hands no reminder to the sink for an event whose notify is
\* false and does not set the notified flag of such an event, whatever the
\* instant of the scan
C25_MutedNeverDelivered ==
    [][last'.op = "scan" =>
          \A i \in 1..Len(events) :
              ~events[i].notify =>
                  /\ events[i].id \notin Handed(last')
                  /\ events'[i].notified => events[i].notified]_vars

\* a scan made inside the reminder window of an unflagged event whose notify
\* is false: it delivered the reminder of another event and none for this one
C25_MutedNeverDeliveredWitness ==
    /\ last.op = "scan"
    /\ Len(last.sent) > 0
    /\ \E i \in 1..Len(events) :
           /\ ~events[i].notify
           /\ ~events[i].notified
           /\ GetDatetime(events[i]) # None
           /\ TimeToNotify(events[i], GetDatetime(events[i]), now)
           /\ events[i].id \notin Handed(last)

\* now is inside the reminder window of e
InWindow(e, n) ==
    /\ GetDatetime(e) # None
    /\ TimeToNotify(e, GetDatetime(e), n)

\* C26: where every save succeeds, a restart made inside the reminder window
\* of an event whose reminder the sink has shown loads that event with
\* notified = true, and the scan that follows the restart hands no reminder
\* to the sink for an event whose reminder was shown before
C26_SurvivesRestart ==
    [][/\ last'.op = "restart" =>
              \A i \in 1..Len(events') :
                  (events'[i].id \in delivered /\ InWindow(events'[i], now))
                      => events'[i].notified
       /\ (last.op = "restart" /\ last'.op = "scan") =>
              Handed(last') \cap delivered = {}]_vars


=============================================================================
